---- MODULE Spec2Model ----
(***************************************************************************)
(* MediaDownloader (src/index.tsx): the React component's state, its       *)
(* event handlers, the continuation of fetchQualities after the provider   *)
(* call, and the timers of the simulated download.                         *)
(*                                                                         *)
(* An optional JavaScript value (null / undefined / a value) is modelled   *)
(* as a sequence of length 0 or 1: <<>> is null or undefined, <<v>> is v.  *)
(***************************************************************************)
EXTENDS Integers, Sequences, FiniteSets, TLC

VARIABLES
    phase,           \* "unmounted" before the mount effect has run, then "mounted",
                     \* or "crashed" when the effect threw
    url,             \* useState('')            line 39
    loading,         \* useState(false)         line 40
    metadata,        \* useState(null)          line 41
    selectedFormat,  \* useState('')            line 42
    downloading,     \* useState(false)         line 43
    progress,        \* useState(0)             line 44
    history,         \* useState([])            line 45
    error,           \* useState(null)          line 47
    stored,          \* localStorage['downloader_history']
    inflight,        \* the fetchQualities call suspended at its await, with the
                     \* url and history its closure captured
    tickTimers,      \* active setInterval timers of startDownload
    settleTimers,    \* pending setTimeout(500) callbacks of the tick
    alertOpen,       \* the "Download Complete" alert() is blocking the page
    replayPending,   \* a setTimeout(100) of a history item's click is pending
    otherHistory,    \* useState([]) line 45 of a second tab on the same localStorage
    now              \* Date.now()

vars == <<phase, url, loading, metadata, selectedFormat, downloading, progress,
          history, error, stored, inflight, tickTimers,
          settleTimers, alertOpen, replayPending, otherHistory, now>>

----------------------------------------------------------------------------
(* Bounds of the model *)

\* Date.now() values a run may reach: bounds the number of recorded resolutions.
MaxClock == 2

\* Text the user can type or paste into the link field.
UrlInputs == {" ", "a"}

\* Values Math.random().toString(36).substr(2, 9) can give.
RandomIds == {"r1"}

\* Values of Math.random() * 15 (rounded down): 0 <= x < 15.
Increments == {0, 14}

----------------------------------------------------------------------------
(* Program constants *)

HistoryLimit == 20

DefaultTitle == "Unknown Media Content"
DefaultAuthor == "Content Creator"
DefaultThumbnail ==
    "https://images.unsplash.com/photo-1611162617474-5b21e879e113?auto=format&fit=crop&q=80&w=300&h=200"
DefaultDuration == "N/A"
DefaultVideoQualities == <<"360p (SD)", "720p (HD)", "1080p (Full HD)">>
DefaultAudioFormats == <<"MP3 128kbps", "MP3 320kbps", "AAC (Original)">>

ErrPasteLink == "Please paste a valid media link first."
ErrFetch == "Could not fetch media info. Please check the URL and try again."

----------------------------------------------------------------------------
(* JavaScript helpers *)

Null == <<>>
Some(v) == <<v>>

\* Truthiness of an optional string: undefined, null and '' are falsy.
TruthyStr(o) == o # Null /\ o[1] # ""

\* a || b on optional strings
OrStr(a, b) == IF TruthyStr(a) THEN a ELSE b

\* arr[i] with a 0-based index: undefined past the end
At(arr, i) == IF i + 1 <= Len(arr) THEN Some(arr[i + 1]) ELSE Null

\* String.prototype.trim on the inputs of the model
Trim(s) == IF s = " " THEN "" ELSE s

\* Array.prototype.slice(0, n)
Slice0(s, n) == IF Len(s) <= n THEN s ELSE SubSeq(s, 1, n)

Range(s) == {s[i] : i \in 1..Len(s)}

----------------------------------------------------------------------------
(* Persisted history: what earlier sessions left in localStorage *)

OldUrls == <<"h01", "h02", "h03", "h04", "h05", "h06", "h07", "h08", "h09", "h10", "h11", "h12", "h13", "h14", "h15", "h16", "h17", "h18", "h19", "h20">>
OldIds == <<"f01", "f02", "f03", "f04", "f05", "f06", "f07", "f08", "f09", "f10", "f11", "f12", "f13", "f14", "f15", "f16", "f17", "f18", "f19", "f20">>

OldHistory(n) ==
    [i \in 1..n |-> [id |-> OldIds[i], url |-> OldUrls[i],
                     title |-> "Old", timestamp |-> 0]]

\* JSON.stringify / JSON.parse of the history array: the serialized text is
\* modelled by the array it denotes, wrapped as the stored item.
JSONstringify(h) == Some(h)
JSONparse(item) == item[1]

\* A stored text that is not JSON (written by another program, or cut
\* short): an item that wraps no single array. JSON.parse throws on it.
CorruptItem == <<<<>>, <<>>>>

ParseThrows(item) == Len(item) # 1

StoredAtStart ==
    {Null, JSONstringify(OldHistory(HistoryLimit)), CorruptItem}

----------------------------------------------------------------------------
(* Provider responses *)

NoFields ==
    [title |-> Null, author |-> Null, duration |-> Null, thumbnail_url |-> Null,
     video_qualities |-> Null, audio_formats |-> Null]

\* kind: "reject"  the generateContent promise rejects
\*       "garbage" response.text is not JSON
\*       "null"    response.text is the JSON text null
\*       "empty"   response.text is undefined or '' (parsed as '{}')
\*       "object"  response.text is a JSON object with the fields of data
Responses ==
    {[kind |-> k, data |-> NoFields] : k \in {"reject", "garbage", "null", "empty"}}
    \cup
    {[kind |-> "object", data |-> d] : d \in
        {[title |-> Some("Demo"), author |-> Some("Ann"), duration |-> Some("3:00"),
          thumbnail_url |-> Some("t.png"),
          video_qualities |-> Some(<<"480p">>),
          audio_formats |-> Some(<<"FLAC">>)],
         [NoFields EXCEPT !.video_qualities = Some(<<>>),
                          !.audio_formats = Some(<<"FLAC">>)],
         [NoFields EXCEPT !.video_qualities = Some(<<"480p">>),
                          !.audio_formats = Some(<<>>)]}}

\* The statements of the try block up to JSON.parse and the first property
\* read throw for these responses.
Throws(resp) == resp.kind \in {"reject", "garbage", "null"}

----------------------------------------------------------------------------
(* fetchQualities: normalization of the parsed response (lines 97-104) *)

\* data.<field> || <default> for the string fields
FieldOr(o, default) == IF TruthyStr(o) THEN o[1] ELSE default

\* data.<field> || <default> for the array fields: every array is truthy
ArrayOr(o, default) == IF o # Null THEN o[1] ELSE default

\* Variant: the video default is the audio default (a copied line)
NormalizeCopiedDefault(data) ==
    [title |-> FieldOr(data.title, DefaultTitle),
     author |-> FieldOr(data.author, DefaultAuthor),
     thumbnail |-> FieldOr(data.thumbnail_url, DefaultThumbnail),
     duration |-> FieldOr(data.duration, DefaultDuration),
     videoQualities |-> ArrayOr(data.video_qualities, DefaultAudioFormats),
     audioFormats |-> ArrayOr(data.audio_formats, DefaultAudioFormats)]

Normalize(data) ==
    [title |-> FieldOr(data.title, DefaultTitle),
     author |-> FieldOr(data.author, DefaultAuthor),
     thumbnail |-> FieldOr(data.thumbnail_url, DefaultThumbnail),
     duration |-> FieldOr(data.duration, DefaultDuration),
     videoQualities |-> ArrayOr(data.video_qualities, DefaultVideoQualities),
     audioFormats |-> ArrayOr(data.audio_formats, DefaultAudioFormats)]

\* videoInfo.videoQualities[1] || videoInfo.videoQualities[0]   (line 107)
DefaultSelection(videoInfo) ==
    OrStr(At(videoInfo.videoQualities, 1), At(videoInfo.videoQualities, 0))

\* !selectedFormat
NoFormat(sel) == ~TruthyStr(sel)

Formats(videoInfo) == Range(videoInfo.videoQualities) \cup Range(videoInfo.audioFormats)

----------------------------------------------------------------------------
(* History store (lines 57-72) *)

NewItem(id, videoUrl, title, ts) ==
    [id |-> id, url |-> videoUrl, title |-> title, timestamp |-> ts]

\* Variant: the filter on url is missing
UpdatedHistoryKeepsDuplicates(h, newItem) ==
    Slice0(<<newItem>> \o h, HistoryLimit)

\* Variant: the new item is appended instead of prepended
UpdatedHistoryAppends(h, newItem) ==
    Slice0(SelectSeq(h, LAMBDA e : e.url # newItem.url) \o <<newItem>>,
           HistoryLimit)

\* [newItem, ...history.filter(h => h.url !== videoUrl)].slice(0, 20)
UpdatedHistory(h, newItem) ==
    Slice0(<<newItem>> \o SelectSeq(h, LAMBDA e : e.url # newItem.url),
           HistoryLimit)

----------------------------------------------------------------------------
(* What the page lets the user do *)

\* Every handler runs on the page's single thread: nothing runs before the
\* mount effect, nor while alert() blocks.
Idle == phase = "mounted" /\ ~alertOpen

\* <button onClick={fetchQualities} disabled={loading || !url}>
FetchButtonEnabled == ~loading /\ url # ""

\* The results section is rendered when metadata && !loading; its download
\* button is disabled={downloading}.
ResultsShown == metadata # Null /\ ~loading

\* Variant: the download button is not disabled while downloading
DownloadButtonNeverDisabled == ResultsShown

DownloadButtonEnabled == ResultsShown /\ ~downloading

----------------------------------------------------------------------------
Init ==
    /\ phase = "unmounted"
    /\ url = ""
    /\ loading = FALSE
    /\ metadata = Null
    /\ selectedFormat = Some("")
    /\ downloading = FALSE
    /\ progress = 0
    /\ history = <<>>
    /\ error = Null
    /\ stored \in StoredAtStart
    /\ inflight = Null
    /\ tickTimers = 0
    /\ settleTimers = 0
    /\ alertOpen = FALSE
    /\ replayPending = FALSE
    /\ otherHistory = <<>>
    /\ now = 0

\* useEffect(..., []) on mount (lines 50-55). An exception in the effect is
\* caught by no error boundary: React unmounts the whole tree and the page
\* stays blank.
Mount ==
    /\ phase = "unmounted"
    /\ IF stored # Null /\ ParseThrows(stored)
       THEN /\ phase' = "crashed"
            /\ UNCHANGED history
       ELSE /\ phase' = "mounted"
            /\ history' = IF stored # Null THEN JSONparse(stored) ELSE history
    /\ UNCHANGED <<url, loading, metadata, selectedFormat, downloading, progress,
                   error, stored, inflight, tickTimers,
                   settleTimers, alertOpen, now, replayPending,
                   otherHistory>>

\* onChange of the link field (line 177)
SetUrl ==
    /\ Idle
    /\ \E text \in UrlInputs : url' = text
    /\ UNCHANGED <<phase, loading, metadata, selectedFormat, downloading, progress,
                   history, error, stored, inflight, tickTimers,
                   settleTimers, alertOpen, now, replayPending,
                   otherHistory>>

\* Variant: clearHistory without localStorage.removeItem
ClearHistoryMemoryOnly ==
    /\ Idle
    /\ history' = <<>>
    /\ UNCHANGED <<phase, url, loading, metadata, selectedFormat, downloading,
                   progress, error, stored, inflight, tickTimers,
                   settleTimers, alertOpen, now, replayPending,
                   otherHistory>>

\* The history panel's open/closed flag (showHistory) only decides whether
\* its buttons are on screen; the user can open it at any time, so it is not
\* part of the state here.
\* clearHistory (lines 69-72), the trash button of the history panel
ClearHistory ==
    /\ Idle
    /\ history' = <<>>
    /\ stored' = Null
    /\ UNCHANGED <<phase, url, loading, metadata, selectedFormat, downloading,
                   progress, error, inflight, tickTimers,
                   settleTimers, alertOpen, now, replayPending,
                   otherHistory>>

\* Click on a history item (lines 357-361): the url is set and a timeout of
\* 100 ms is started.
ReplayPositions == IF history = <<>> THEN {} ELSE {Len(history)}

Replay ==
    /\ Idle
    /\ \E i \in ReplayPositions : url' = history[i].url
    /\ replayPending' = TRUE
    /\ UNCHANGED <<phase, loading, metadata, selectedFormat, downloading,
                   progress, history, error, stored, inflight, tickTimers,
                   settleTimers, alertOpen, now,
                   otherHistory>>

\* The timeout's callback (lines 361-364). Its querySelector
\* 'button[onClick*="fetchQualities"]' matches no element (React renders no
\* onClick attribute), so btn is null and btn?.click() does nothing. Several
\* clicks leave several timeouts: after this one, others may still be pending.
ReplayTimeout ==
    /\ Idle
    /\ replayPending
    /\ replayPending' \in BOOLEAN
    /\ UNCHANGED <<phase, url, loading, metadata, selectedFormat, downloading,
                   progress, history, error, stored, inflight, tickTimers,
                   settleTimers, alertOpen, now,
                   otherHistory>>

\* fetchQualities up to its await (lines 74-84)
FetchQualities ==
    /\ Idle
    /\ FetchButtonEnabled
    /\ now < MaxClock
    /\ IF Trim(url) = ""
       THEN /\ error' = Some(ErrPasteLink)
            /\ UNCHANGED <<loading, metadata, inflight>>
       ELSE /\ loading' = TRUE
            /\ error' = Null
            /\ metadata' = Null
            /\ inflight' = Some([url |-> url, history |-> history])
    /\ UNCHANGED <<phase, url, selectedFormat, downloading, progress, history,
                   stored, tickTimers, settleTimers, alertOpen, now,
                   replayPending,
                   otherHistory>>

\* Variant: the catch block only logs
CatchBlockSilent == UNCHANGED error

\* catch (err) { console.error(err); setError(...) }   (lines 109-111)
CatchBlock == error' = Some(ErrFetch)

\* fetchQualities from its await to its end (lines 84-114), given the
\* provider's answer, the id Math.random gives, and whether
\* localStorage.setItem succeeds.
ResumeWith(resp, id, writeOk) ==
    /\ Idle
    /\ inflight # Null
    /\ LET call == inflight[1]
           videoInfo == Normalize(resp.data)
           newItem == NewItem(id, call.url, videoInfo.title, now + 1)
           updatedHistory == UpdatedHistory(call.history, newItem)
       IN  IF Throws(resp)
           THEN /\ CatchBlock
                /\ UNCHANGED <<metadata, selectedFormat, history, stored, now>>
           ELSE /\ metadata' = Some(videoInfo)
                /\ selectedFormat' = DefaultSelection(videoInfo)
                /\ history' = updatedHistory
                /\ now' = now + 1
                /\ IF writeOk
                   THEN /\ stored' = JSONstringify(updatedHistory)
                        /\ UNCHANGED error
                   ELSE /\ CatchBlock
                        /\ UNCHANGED stored
    /\ loading' = FALSE
    /\ inflight' = Null
    /\ UNCHANGED <<phase, url, downloading, progress, tickTimers,
                   settleTimers, alertOpen, replayPending,
                   otherHistory>>

FetchQualitiesResume ==
    \E resp \in Responses, id \in RandomIds, writeOk \in BOOLEAN :
        ResumeWith(resp, id, writeOk)

\* the format buttons the user clicks (lines 236-248, 260-272): one video
\* quality and one audio format of each response that lists any
ClickedFormats == {"360p (SD)", "MP3 128kbps", "480p", "FLAC"}

\* Click on a video quality or audio format button (lines 239, 263)
SelectFormat ==
    /\ Idle
    /\ ResultsShown
    /\ \E label \in Formats(metadata[1]) \cap ClickedFormats :
           selectedFormat' = Some(label)
    /\ UNCHANGED <<phase, url, loading, metadata, downloading, progress, history,
                   error, stored, inflight, tickTimers,
                   settleTimers, alertOpen, now, replayPending,
                   otherHistory>>

\* startDownload (lines 117-137), the click on the download button
StartDownload ==
    /\ Idle
    /\ DownloadButtonEnabled
    /\ IF NoFormat(selectedFormat)
       THEN UNCHANGED <<downloading, progress, tickTimers>>
       ELSE /\ downloading' = TRUE
            /\ progress' = 0
            /\ tickTimers' = tickTimers + 1
    /\ UNCHANGED <<phase, url, loading, metadata, selectedFormat, history,
                   error, stored, inflight, settleTimers,
                   alertOpen, now, replayPending,
                   otherHistory>>

\* Variant: the updater returns prev instead of 100 once prev >= 100
TickProgressNoPin(prev, inc) == IF prev >= 100 THEN prev ELSE prev + inc

\* The updater of setProgress (lines 124-135): the new progress
TickProgress(prev, inc) == IF prev >= 100 THEN 100 ELSE prev + inc

\* The interval callback (lines 123-136)
Tick ==
    /\ Idle
    /\ tickTimers > 0
    /\ \E inc \in Increments : progress' = TickProgress(progress, inc)
    /\ IF progress >= 100
       THEN /\ tickTimers' = tickTimers - 1
            /\ settleTimers' = settleTimers + 1
       ELSE UNCHANGED <<tickTimers, settleTimers>>
    /\ UNCHANGED <<phase, url, loading, metadata, selectedFormat, downloading,
                   history, error, stored, inflight, alertOpen, now,
                   replayPending,
                   otherHistory>>

\* The timeout callback (lines 127-131) up to its alert(): setDownloading(false)
\* and setProgress(0) are batched (createRoot) and alert() blocks before React
\* renders them, so the page still shows the running download at 100.
SettleTimeout ==
    /\ Idle
    /\ settleTimers > 0
    /\ settleTimers' = settleTimers - 1
    /\ alertOpen' = TRUE
    /\ UNCHANGED <<phase, url, loading, metadata, selectedFormat, downloading,
                   progress, history, error, stored, inflight,
                   tickTimers, now, replayPending,
                   otherHistory>>

\* The user closes the alert: the callback returns and React renders the
\* two queued updates.
DismissAlert ==
    /\ phase = "mounted"
    /\ alertOpen
    /\ alertOpen' = FALSE
    /\ downloading' = FALSE
    /\ progress' = 0
    /\ UNCHANGED <<phase, url, loading, metadata, selectedFormat, history,
                   error, stored, inflight, tickTimers,
                   settleTimers, now, replayPending,
                   otherHistory>>

Next ==
    \/ Mount
    \/ SetUrl
    \/ ClearHistory
    \/ Replay
    \/ ReplayTimeout
    \/ FetchQualities
    \/ FetchQualitiesResume
    \/ SelectFormat
    \/ StartDownload
    \/ Tick
    \/ SettleTimeout
    \/ DismissAlert

Spec == Init /\ [][Next]_vars

\* Every JSON object the provider can answer with: each field absent or
\* present, the title also present and empty, the lists also present and empty.
ObjectResponses ==
    {[kind |-> "object", data |-> d] : d \in
        [title : {Null, Some(""), Some("Demo")},
         author : {Null, Some("Ann")},
         duration : {Null, Some("3:00")},
         thumbnail_url : {Null, Some("t.png")},
         video_qualities : {Null, Some(<<>>), Some(<<"480p">>)},
         audio_formats : {Null, Some(<<>>), Some(<<"FLAC">>)}]}

FetchQualitiesResumeObject ==
    \E resp \in ObjectResponses, id \in RandomIds, writeOk \in BOOLEAN :
        ResumeWith(resp, id, writeOk)

\* A first session that only resolves urls, with every object as an answer.
ResolveInit == Init /\ stored = Null

ResolveNext ==
    \/ Mount
    \/ SetUrl
    \/ FetchQualities
    \/ FetchQualitiesResumeObject

ResolveSpec == ResolveInit /\ [][ResolveNext]_vars

\* A second tab of the application on the same localStorage. It ran its mount
\* effect when nothing was stored, so its history started empty.
OtherTabUrl == "b"

\* saveToHistory (lines 57-67) in the second tab, at the end of a successful
\* resolution of its link: the history of that tab gets the new entry and is
\* written to the shared item.
OtherTabRecord ==
    /\ now < MaxClock
    /\ \E id \in RandomIds :
         LET newItem == NewItem(id, OtherTabUrl, DefaultTitle, now + 1)
             updatedHistory == UpdatedHistory(otherHistory, newItem)
         IN  /\ otherHistory' = updatedHistory
             /\ stored' = JSONstringify(updatedHistory)
    /\ now' = now + 1
    /\ UNCHANGED <<phase, url, loading, metadata, selectedFormat, downloading,
                   progress, history, error, inflight, tickTimers,
                   settleTimers, alertOpen, replayPending>>

\* Two tabs, first visit: nothing persisted yet.
TabsInit == Init /\ stored = Null

TabsNext ==
    \/ Mount
    \/ SetUrl
    \/ ClearHistory
    \/ FetchQualities
    \/ FetchQualitiesResume
    \/ OtherTabRecord

TabsSpec == TabsInit /\ [][TabsNext]_vars

\* The timers keep firing: the interval calls back every 200 ms with an
\* increment that is not 0 for ever, and the 500 ms timeout expires.
\* Checked from a first session: nothing persisted yet.
LiveInit == Init /\ stored = Null

LiveSpec ==
    /\ LiveInit
    /\ [][Next]_vars
    /\ WF_vars(Tick)
    /\ WF_vars(SettleTimeout)
    /\ WF_vars(ReplayTimeout)

----------------------------------------------------------------------------
(* Properties *)

UrlsDistinct(h) == \A i, j \in 1..Len(h) : h[i].url = h[j].url => i = j

WellFormed(h) == UrlsDistinct(h) /\ Len(h) <= HistoryLimit

\* C1: whatever resolutions and clears have happened, neither the history in
\* memory nor the persisted one holds two entries with the same url or more
\* than 20 entries.
C1_HistoryDistinctAndBounded ==
    /\ WellFormed(history)
    /\ stored # Null => WellFormed(JSONparse(stored))

\* A resolution of "a" was recorded on a store that already held 20 entries:
\* the oldest one, h20, was dropped.
C1_Witness ==
    /\ now = 1
    /\ Len(history) = HistoryLimit
    /\ history[1].url = "a"
    /\ history[HistoryLimit].url = OldUrls[HistoryLimit - 1]

\* The entries of h whose url is not u, in their order
RECURSIVE Others(_, _)
Others(h, u) ==
    IF h = <<>> THEN <<>>
    ELSE IF Head(h).url = u THEN Others(Tail(h), u)
    ELSE <<Head(h)>> \o Others(Tail(h), u)

\* A step in which a resolution succeeds and is recorded
RecordStep == inflight # Null /\ now' = now + 1

\* C2: a successful resolution of url with history H (the one saveToHistory
\* works on) leaves the new entry (url, title of the record, a later timestamp)
\* at the head, followed by the entries of H with another url in their
\* previous order, cut to 20 entries in all: a url already present moves to
\* the head and is not duplicated, and the oldest entries are the ones dropped.
C2_RecordResult ==
    [][RecordStep =>
        LET H == inflight[1].history
            u == inflight[1].url
            rest == Others(H, u)
            keep == IF Len(rest) < HistoryLimit THEN Len(rest) ELSE HistoryLimit - 1
        IN  /\ Len(history') = keep + 1
            /\ history'[1].url = u
            /\ history'[1].title = metadata'[1].title
            /\ \A i \in 1..Len(H) : history'[1].timestamp > H[i].timestamp
            /\ \A i \in 1..keep : history'[i + 1] = rest[i]
            /\ \A i \in 2..(keep + 1) : history'[i].url # u
    ]_vars

\* "a" was recorded twice: its one entry is at the head with the second
\* resolution's title and timestamp, the older entries follow.
C2_Witness ==
    /\ now = 2
    /\ Len(history) = HistoryLimit
    /\ history[1] = NewItem("r1", "a", "Demo", 2)
    /\ \A i \in 2..Len(history) : history[i] = OldHistory(HistoryLimit)[i - 1]

\* C3: clearHistory leaves the history empty and the persisted item removed
\* whatever they were, changes nothing else, and so a second clearHistory
\* changes nothing.
C3_ClearEmptiesAndIsIdempotent ==
    [][ClearHistory =>
        /\ history' = <<>>
        /\ stored' = Null
        /\ UNCHANGED <<phase, url, loading, metadata, selectedFormat, downloading,
                       progress, error, inflight, tickTimers, settleTimers,
                       alertOpen, now, replayPending>>
        /\ (history = <<>> /\ stored = Null) => UNCHANGED vars
    ]_vars

\* The history was cleared after a resolution had been recorded.
C3_Witness == now > 0 /\ history = <<>> /\ stored = Null

\* C4: every displayed record has at least one video quality and at least
\* one audio format.
C4_FormatListsNonEmpty ==
    metadata # Null =>
        /\ metadata[1].videoQualities # <<>>
        /\ metadata[1].audioFormats # <<>>

\* C5: selectedFormat is none or one of the current record's formats, and it
\* is none whenever there is no record.
C5_SelectionWithinRecord ==
    /\ metadata = Null => NoFormat(selectedFormat)
    /\ metadata # Null =>
         NoFormat(selectedFormat) \/ selectedFormat[1] \in Formats(metadata[1])

\* The default the specification gives for a new record
SpecifiedDefault(videoInfo) ==
    IF Len(videoInfo.videoQualities) >= 2 THEN Some(videoInfo.videoQualities[2])
    ELSE IF Len(videoInfo.videoQualities) = 1 THEN Some(videoInfo.videoQualities[1])
    ELSE At(videoInfo.audioFormats, 0)

\* C6: a successful resolution sets selectedFormat to the second video
\* quality, else the first video quality, else the first audio format.
C6_SelectionResetOnSuccess ==
    [][(metadata = Null /\ metadata' # Null) =>
        selectedFormat' = SpecifiedDefault(metadata'[1])]_vars

\* The cases in which a download must not start
StartRefused == downloading \/ NoFormat(selectedFormat) \/ metadata = Null

\* C7: when a download is running, no format is selected or no record is
\* resolved, no step starts a download or creates a tick timer, and a click
\* that reaches startDownload leaves the download state as it was.
C7_StartRejected ==
    [][/\ StartRefused =>
            /\ tickTimers' <= tickTimers
            /\ downloading' => downloading
       /\ (StartRefused /\ ~downloading) =>
            UNCHANGED <<downloading, progress, tickTimers, settleTimers>>
       /\ (StartRefused /\ StartDownload) =>
            UNCHANGED <<downloading, progress, tickTimers, settleTimers>>
    ]_vars

\* A record is shown with no format selected and nothing is downloading: the
\* download button can be clicked and startDownload returns at once.
C7_Witness ==
    /\ ResultsShown
    /\ NoFormat(selectedFormat)
    /\ ~downloading
    /\ tickTimers = 0

\* C8: a running download reaches its completion (the "Download Complete"
\* alert) with progress 100.
C8_DownloadCompletes == downloading ~> (alertOpen /\ progress = 100)

C8_Witness == downloading /\ alertOpen /\ progress = 100 /\ tickTimers = 0

\* C9: while a download is running, no step lowers progress.
C9_ProgressNeverDecreases ==
    [][(downloading /\ downloading') => progress' >= progress]_vars

\* C10: progress is between 0 and 100 in every state.
C10_ProgressInRange == progress \in 0..100

\* C11: no resolution is in flight while a download is running.
C11_NoResolutionWhileDownloading == ~(downloading /\ loading)

\* A step in which the suspended fetchQualities resumes with answer resp
ResumesWith(resp) ==
    \E id \in RandomIds, writeOk \in BOOLEAN : ResumeWith(resp, id, writeOk)

\* C12: when the provider call fails or its text is not JSON, no record is
\* displayed, the error is shown, loading is over, and the history in memory
\* and the persisted one are what they were.
C12_FailureLeavesHistory ==
    [][\A resp \in Responses :
        (resp.kind \in {"reject", "garbage"} /\ ResumesWith(resp)) =>
            /\ metadata' = Null
            /\ error' # Null
            /\ ~loading'
            /\ UNCHANGED <<history, stored>>
    ]_vars

\* A resolution failed after an earlier one had been recorded.
C12_Witness ==
    /\ now = 1
    /\ history # <<>>
    /\ metadata = Null
    /\ error = Some(ErrFetch)
    /\ ~loading

\* C13: start-up never ends in a fatal error, whatever the persisted text is.
C13_CorruptStoreIsNoHistory == phase # "crashed"

\* C14: when the provider's answer is good and localStorage.setItem throws,
\* the history in memory has the new entry at its head, the record is
\* displayed, loading is over and no error is shown.
C14_WriteFailureIsNonFatal ==
    [][\A resp \in Responses, id \in RandomIds :
        (resp.kind \in {"empty", "object"} /\ ResumeWith(resp, id, FALSE)) =>
            /\ history' # <<>>
            /\ history'[1].url = inflight[1].url
            /\ metadata' # Null
            /\ ~loading'
            /\ error' = Null
    ]_vars

\* The record and the head of the history after fetchQualities resumes
ResolvedAs(videoInfo) ==
    /\ metadata' = Some(videoInfo)
    /\ ~loading'
    /\ history' # <<>>
    /\ history'[1].url = inflight[1].url
    /\ history'[1].title = videoInfo.title

\* C15 as stated: every field the object has is carried as it is, every
\* field it lacks gets its default.
C15_PresentFieldsCarried ==
    [][\A resp \in ObjectResponses :
        ResumesWith(resp) =>
            LET d == resp.data
                Carried(o, default) == IF o # Null THEN o[1] ELSE default
            IN  ResolvedAs(
                  [title |-> Carried(d.title, DefaultTitle),
                   author |-> Carried(d.author, DefaultAuthor),
                   thumbnail |-> Carried(d.thumbnail_url, DefaultThumbnail),
                   duration |-> Carried(d.duration, DefaultDuration),
                   videoQualities |-> Carried(d.video_qualities, DefaultVideoQualities),
                   audioFormats |-> Carried(d.audio_formats, DefaultAudioFormats)])
    ]_vars

\* C15 amended: a string field that is absent or empty gets its default and
\* any other is carried; a list that is absent gets its default and any
\* other, the empty one too, is carried; each field on its own.
C15_NonEmptyFieldsCarried ==
    [][\A resp \in ObjectResponses :
        ResumesWith(resp) =>
            LET d == resp.data
                Text(o, default) ==
                    IF o = Null \/ o = Some("") THEN default ELSE o[1]
                List(o, default) == IF o = Null THEN default ELSE o[1]
            IN  ResolvedAs(
                  [title |-> Text(d.title, "Unknown Media Content"),
                   author |-> Text(d.author, "Content Creator"),
                   thumbnail |-> Text(d.thumbnail_url, DefaultThumbnail),
                   duration |-> Text(d.duration, "N/A"),
                   videoQualities |->
                       List(d.video_qualities,
                            <<"360p (SD)", "720p (HD)", "1080p (Full HD)">>),
                   audioFormats |->
                       List(d.audio_formats,
                            <<"MP3 128kbps", "MP3 320kbps", "AAC (Original)">>)])
    ]_vars

\* The answer {title: "Demo"} for "a": the record has that title and the
\* defaults elsewhere, and the history has the one entry ("a", "Demo").
C15_Witness ==
    /\ metadata = Some([title |-> "Demo", author |-> DefaultAuthor,
                        thumbnail |-> DefaultThumbnail,
                        duration |-> DefaultDuration,
                        videoQualities |-> DefaultVideoQualities,
                        audioFormats |-> DefaultAudioFormats])
    /\ Len(history) = 1
    /\ history[1].url = "a"
    /\ history[1].title = "Demo"

\* C16: when the timeout started by the click on a history item fires and no
\* resolution is in flight, a resolution of the url the click set starts.
C16_ReplayStartsResolution ==
    [][(ReplayTimeout /\ ~loading) =>
        /\ loading'
        /\ inflight' # Null
        /\ inflight'[1].url = url
    ]_vars

\* C17: every started resolution ends: loading returns to false, with a record
\* or with an error, whether or not the provider ever responds.
C17_ResolutionEnds == loading ~> ~loading

\* C18: a resolution supersedes the download before it, so while a resolution
\* is in flight no tick timer and no settle timer of a download is active;
\* and at most one tick timer is active at any time.
C18_NoLeakedTimers ==
    /\ loading => (tickTimers = 0 /\ settleTimers = 0)
    /\ tickTimers <= 1

\* C19: a successful resolution is recorded into the history as it is when the
\* resolution completes: the new entry at the head, then the entries of the
\* current history with another url, cut to 20 in all. After a clearHistory
\* during the resolution the history is the new entry alone.
C19_RecordUsesCurrentHistory ==
    [][RecordStep =>
        LET u == inflight[1].url
            rest == Others(history, u)
            keep == IF Len(rest) < HistoryLimit THEN Len(rest) ELSE HistoryLimit - 1
        IN  /\ Len(history') = keep + 1
            /\ history'[1].url = u
            /\ \A i \in 1..keep : history'[i + 1] = rest[i]
    ]_vars

\* The urls of the entries of a persisted history
StoredUrls(item) == {JSONparse(item)[i].url : i \in 1..Len(JSONparse(item))}

\* C20: with two tabs on one store no record is lost: a write of the persisted
\* history keeps every url that was persisted before it (below the limit of
\* 20 entries, where nothing is truncated).
C20_NoLostUpdate ==
    [][(/\ stored # Null
        /\ stored' # Null
        /\ Len(JSONparse(stored)) < HistoryLimit)
       => StoredUrls(stored) \subseteq StoredUrls(stored')
    ]_vars

====
